---- MODULE Spec2Model ----
(***************************************************************************)
(* DoorOpenEnv (src/mjc_env/door/door_open_env_v1.py): the episode state   *)
(* of the door-opening environment, its step / reset_model operations and  *)
(* the reward, termination and collision-filter evaluation.                *)
(*                                                                         *)
(* The physics stepper (mujoco.mj_step, set_state) is external: its result *)
(* -- the hand/latch distance, the joint velocities and the contact list   *)
(* -- is a nondeterministic choice from bounded sets.  Real numbers are    *)
(* exact rationals <<numerator, denominator>> in lowest terms.             *)
(***************************************************************************)
EXTENDS Integers, Sequences, FiniteSets

VARIABLES names, episode_len, excluded_geom_ids, step_number,
          success_duration, dist, qvel, contact, lastop, rew, term, trunc

vars == <<names, episode_len, excluded_geom_ids, step_number,
          success_duration, dist, qvel, contact, lastop, rew, term, trunc>>

(* ------------------------------ bounds --------------------------------- *)
\* steps taken in one episode
MaxSteps == 23
\* cap of the consecutive-success counter (it survives reset_model)
MaxDur == 23
\* configured episode lengths 1..MaxEpisodeLen
MaxEpisodeLen == 2
\* number of degrees of freedom of the scene (model.nv)
NV == 11
\* longest contact list of the evaluation specification
MaxContacts == 2

(* ----------------------------- rationals ------------------------------- *)
Abs(x) == IF x < 0 THEN -x ELSE x

RECURSIVE GCD(_, _)
GCD(a, b) == IF b = 0 THEN a ELSE GCD(b, a % b)

Rat(n, d) == LET g == GCD(Abs(n), d) IN <<n \div g, d \div g>>
FromInt(n) == <<n, 1>>
RAdd(a, b) == Rat(a[1] * b[2] + b[1] * a[2], a[2] * b[2])
RNeg(a) == <<-a[1], a[2]>>
RSub(a, b) == RAdd(a, RNeg(b))
RMul(a, b) == Rat(a[1] * b[1], a[2] * b[2])
\* 1 / a for a > 0
RInv(a) == Rat(a[2], a[1])
RLess(a, b) == a[1] * b[2] < b[1] * a[2]

(* --------------------------- scene name table -------------------------- *)
\* geometry names are character sequences; <<>> is an unnamed geometry
\* (mj_id2name gives None).  Geometry ids are 0-based: id g has names[g+1].
door_handle == <<"d","o","o","r","_","h","a","n","d","l","e">>
finger == <<"f","i","n","g","e","r">>

SceneFull == << <<>>, door_handle, finger \o <<"1">>, <<"l","i","n","k">>,
                <<"x">> \o finger, finger >>
SceneNoHandle == << <<>>, finger \o <<"_","p","a","d">>, <<"d","o","o","r">>,
                    <<"l","i","n","k">>, <<>> >>
SceneHandleFirst == << door_handle, <<"l","i","n","k">>, <<"f","i","n","g">>,
                       finger \o <<"2">> >>
Scenes == {SceneFull, SceneNoHandle, SceneHandleFirst}

ngeom(model) == Len(model)
mj_id2name(model, geom_id) == model[geom_id + 1]
NotFound == -1

\* mujoco.mj_name2id: the id of the geometry of that name, -1 when none
mj_name2id(model, name) ==
    IF \E g \in 0..(ngeom(model) - 1) : mj_id2name(model, g) = name
    THEN CHOOSE g \in 0..(ngeom(model) - 1) : mj_id2name(model, g) = name
    ELSE NotFound

\* re.match("^finger", geom_name)
MatchFinger(geom_name) ==
    /\ Len(geom_name) >= Len(finger)
    /\ SubSeq(geom_name, 1, Len(finger)) = finger

\* if geom_name and re.match("^finger", geom_name)
IsFingerGeom(geom_name) == geom_name # <<>> /\ MatchFinger(geom_name)

RECURSIVE FingerLoop(_, _)
FingerLoop(model, geom_id) ==
    IF geom_id >= ngeom(model) THEN <<>>
    ELSE (IF IsFingerGeom(mj_id2name(model, geom_id)) THEN <<geom_id>> ELSE <<>>)
         \o FingerLoop(model, geom_id + 1)

FindGeomIdsNoHandleMut(model) == FingerLoop(model, 0)
_find_geom_ids(model) == <<mj_name2id(model, door_handle)>> \o FingerLoop(model, 0)

Range(s) == {s[i] : i \in 1..Len(s)}

(* --------------------------- collision filter -------------------------- *)
\* the condition of line 113 (an integer is true when non-zero)
ContactCountsGeom1OnlyMut(c, excluded) ==
    c.geom1 # 0 /\ c.geom2 # 0 /\ c.geom1 \notin Range(excluded)
ContactCounts(c, excluded) ==
    /\ c.geom1 # 0
    /\ c.geom2 # 0
    /\ c.geom1 \notin Range(excluded)
    /\ c.geom2 \notin Range(excluded)

RECURSIVE ContactLoop(_, _, _)
ContactLoop(contacts, excluded, i) ==
    IF i > Len(contacts) THEN FALSE
    ELSE IF ContactCounts(contacts[i], excluded) THEN TRUE
    ELSE ContactLoop(contacts, excluded, i + 1)

_process_collision(contacts, excluded) == ContactLoop(contacts, excluded, 1)

(* ------------------------- reward and termination ---------------------- *)
SuccessThreshold == 20

RewDist(d) == RMul(FromInt(1), RInv(RAdd(FromInt(1), d)))

RECURSIVE AbsSum(_, _, _)
AbsSum(q, lo, hi) == IF lo >= hi THEN 0 ELSE Abs(q[lo]) + AbsSum(q, lo + 1, hi)

\* -abs(self.data.qvel[3:10]).sum()
PenQvel(q) == FromInt(-AbsSum(q, 3, 10))

PenCollision(is_collided) == IF is_collided THEN FromInt(-1) ELSE FromInt(0)

SuccessNonStrictMut(d) == ~RLess(Rat(1, 10), d)
Success(d) == RLess(d, Rat(1, 10))

RewSignMut(success, rew_dist, pen_qvel, pen_collision) ==
    RAdd(RAdd(RAdd(RMul(FromInt(IF success THEN 1 ELSE 0), FromInt(10)), rew_dist),
              RMul(pen_qvel, Rat(1, 1000))),
         RMul(pen_collision, FromInt(10)))
Rew(success, rew_dist, pen_qvel, pen_collision) ==
    RSub(RSub(RAdd(RMul(FromInt(IF success THEN 1 ELSE 0), FromInt(10)), rew_dist),
              RMul(pen_qvel, Rat(1, 1000))),
         RMul(pen_collision, FromInt(10)))

DoneNoCollisionMut(sd, is_collided) == sd > SuccessThreshold
Done(sd, is_collided) == (sd > SuccessThreshold) \/ is_collided

UpdateNoResetMut(sd, success) == IF success THEN sd + 1 ELSE sd
UpdateSuccessDuration(sd, success) == IF success THEN sd + 1 ELSE 0

\* _get_rew_done: the returned reward and done flag, and the updated counter
GetRewDoneAfterUpdateMut(sd, d, q, contacts, excluded) ==
    LET is_collided == _process_collision(contacts, excluded)
        success == Success(d)
    IN [rew |-> Rew(success, RewDist(d), PenQvel(q), PenCollision(is_collided)),
        done |-> Done(UpdateSuccessDuration(sd, success), is_collided),
        success_duration |-> UpdateSuccessDuration(sd, success)]
_get_rew_done(sd, d, q, contacts, excluded) ==
    LET is_collided == _process_collision(contacts, excluded)
        success == Success(d)
    IN [rew |-> Rew(success, RewDist(d), PenQvel(q), PenCollision(is_collided)),
        done |-> Done(sd, is_collided),
        success_duration |-> UpdateSuccessDuration(sd, success)]

TruncStrictMut(n, len) == n > len
Trunc(n, len) == n >= len

(* --------------------------- physics outcomes -------------------------- *)
\* hand/latch distances, in hundredths
Dists == {Rat(9, 100), Rat(10, 100), Rat(11, 100)}
DistsEval == {Rat(0, 100), Rat(5, 100), Rat(9, 100), Rat(10, 100), Rat(11, 100), Rat(150, 100)}

\* joint velocities: value a (alternating sign) on the arm joints 3..9,
\* value b on every other degree of freedom
QvelVec(a, b) ==
    [i \in 0..(NV - 1) |->
        IF i < 3 \/ i > 9 THEN b ELSE IF i % 2 = 0 THEN a ELSE -a]
Qvels == {QvelVec(1, -2)}
QvelsEval == {QvelVec(a, b) : a \in {0, 1, -2}, b \in {0, 3}}

ContactPairs(ids) == [geom1 : ids, geom2 : ids]
ContactSeqs(ids, n) == UNION {[1..k -> ContactPairs(ids)] : k \in 0..n}
Contacts == ContactSeqs({1, 3}, 1)
ContactsEval == ContactSeqs({0, 1, 3}, MaxContacts)

(* ------------------------------ operations ----------------------------- *)
NoReturn == FromInt(0)

\* the state after __init__
Init ==
    /\ names \in Scenes
    /\ episode_len \in 1..MaxEpisodeLen
    /\ excluded_geom_ids = _find_geom_ids(names)
    /\ step_number = 0
    /\ success_duration = 0
    /\ dist = Rat(50, 100)
    /\ qvel = QvelVec(0, 0)
    /\ contact = <<>>
    /\ lastop = "init"
    /\ rew = NoReturn
    /\ term = FALSE
    /\ trunc = FALSE

\* step(a): mj_step leaves the physics outcome (d, q, c)
StepWith(D, Q, C) ==
    \E d \in D, q \in Q, c \in C :
        LET r == _get_rew_done(success_duration, d, q, c, excluded_geom_ids)
        IN /\ dist' = d
           /\ qvel' = q
           /\ contact' = c
           /\ step_number' = step_number + 1
           /\ rew' = r.rew
           /\ term' = r.done
           /\ success_duration' = r.success_duration
           /\ trunc' = Trunc(step_number + 1, episode_len)
           /\ lastop' = "step"
           /\ UNCHANGED <<names, episode_len, excluded_geom_ids>>

step ==
    /\ step_number < MaxSteps
    /\ success_duration < MaxDur
    /\ StepWith(Dists, Qvels, Contacts)

\* reset_model: set_state leaves the physics outcome (d, q, c)
reset_model ==
    /\ lastop # "reset"
    /\ \E d \in Dists, q \in Qvels, c \in Contacts :
        /\ dist' = d
        /\ qvel' = q
        /\ contact' = c
    /\ step_number' = 0
    /\ lastop' = "reset"
    /\ rew' = NoReturn
    /\ term' = FALSE
    /\ trunc' = FALSE
    /\ UNCHANGED <<names, episode_len, excluded_geom_ids, success_duration>>

Next == step \/ reset_model

Spec == Init /\ [][Next]_vars

\* evaluation of one step over a wide range of physics outcomes and counters
EvalDurations == {0, 1, SuccessThreshold, SuccessThreshold + 1}

InitEval ==
    /\ names \in Scenes
    /\ episode_len \in 1..MaxEpisodeLen
    /\ excluded_geom_ids = _find_geom_ids(names)
    /\ step_number = 0
    /\ success_duration \in EvalDurations
    /\ dist = Rat(50, 100)
    /\ qvel = QvelVec(0, 0)
    /\ contact = <<>>
    /\ lastop = "init"
    /\ rew = NoReturn
    /\ term = FALSE
    /\ trunc = FALSE

stepEval ==
    /\ step_number < 1
    /\ StepWith(DistsEval, QvelsEval, ContactsEval)

NextEval == stepEval

SpecEval == InitEval /\ [][NextEval]_vars

(* ------------------------------ properties ----------------------------- *)
\* the transition is a call of step
IsStep == lastop' = "step"

\* the contact list holds a contact with both ids non-zero and not excluded
UnfilteredContact(contacts, excluded) ==
    \E i \in 1..Len(contacts) :
        /\ contacts[i].geom1 # 0 /\ contacts[i].geom2 # 0
        /\ \A j \in 1..Len(excluded) :
               excluded[j] # contacts[i].geom1 /\ excluded[j] # contacts[i].geom2

\* dist < 0.1, on the lowest-terms pair
Below01(d) == 10 * d[1] < d[2]

\* 10*success + 1/(1+dist) + 0.001*sum|qvel[3..9]| + 10*collision, over the
\* common denominator 1000*(den+num) of dist = num/den
ExpectedRew(d, q, success, collided) ==
    LET s == Abs(q[3]) + Abs(q[4]) + Abs(q[5]) + Abs(q[6]) + Abs(q[7])
             + Abs(q[8]) + Abs(q[9])
        den == 1000 * (d[2] + d[1])
        num == (IF success THEN 10 * den ELSE 0) + 1000 * d[2] + s * (d[2] + d[1])
               + (IF collided THEN 10 * den ELSE 0)
    IN Rat(num, den)

\* C1: a step reports terminated exactly when the counter on entry exceeds
\* 20 or _process_collision detects a collision on that step
C1_Terminated ==
    [][IsStep =>
        (term' <=> (success_duration > 20
                    \/ _process_collision(contact', excluded_geom_ids)))]_vars
C1_Witness ==
    /\ lastop = "step" /\ term /\ success_duration <= 1
    /\ _process_collision(contact, excluded_geom_ids)

\* C2: after reset_model the consecutive-success counter is 0
C2_ResetClearsCounter == lastop = "reset" => success_duration = 0

\* C3: the step counter is 0 after a reset, grows by 1 per step, and the
\* k-th step of an episode reports truncated exactly when k >= episode_len
C3_Truncation ==
    /\ [](lastop = "reset" => step_number = 0)
    /\ [][IsStep => step_number' = step_number + 1]_vars
    /\ [](lastop = "step" => (trunc <=> step_number >= episode_len))
C3_Witness ==
    /\ lastop = "step" /\ trunc /\ ~term
    /\ step_number = episode_len /\ episode_len >= 2

C5_CollisionFilter ==
    /\ [](_process_collision(contact, excluded_geom_ids)
            <=> UnfilteredContact(contact, excluded_geom_ids))
    /\ [][IsStep /\ ~UnfilteredContact(contact', excluded_geom_ids)
            => (term' => success_duration > 20)]_vars
C5_Witness ==
    /\ lastop = "step" /\ ~term /\ Len(contact) = 2
    /\ \E i \in 1..2 : contact[i].geom1 \in Range(excluded_geom_ids)
                       /\ contact[i].geom2 \notin Range(excluded_geom_ids)
                       /\ contact[i].geom2 # 0
    /\ \E i \in 1..2 : contact[i].geom1 = 0 /\ contact[i].geom2 # 0
                       /\ contact[i].geom2 \notin Range(excluded_geom_ids)

\* C6: the counter is never negative; a non-success step leaves it at 0 and
\* a success step increases it by exactly 1
C6_Counter ==
    /\ [](success_duration >= 0)
    /\ [][IsStep => IF Below01(dist')
                    THEN success_duration' = success_duration + 1
                    ELSE success_duration' = 0]_vars
C6_Witness ==
    /\ lastop = "step" /\ success_duration = 0 /\ term /\ ~Below01(dist)
    /\ ~_process_collision(contact, excluded_geom_ids)

\* C7: at a distance of exactly 0.1 success is false: no +10 bonus in the
\* reward and the counter is 0 after the step; a positive counter after a
\* step means the distance was strictly below 0.1
C7_StrictSuccess ==
    /\ (lastop = "step" /\ dist = <<1, 10>> =>
          /\ success_duration = 0
          /\ rew = ExpectedRew(dist, qvel, FALSE,
                               _process_collision(contact, excluded_geom_ids)))
    /\ (lastop = "step" /\ success_duration > 0 => 10 * dist[1] < dist[2])
C7_Witness ==
    /\ lastop = "step" /\ dist = <<1, 10>> /\ success_duration = 0 /\ term
    /\ ~_process_collision(contact, excluded_geom_ids)

\* the scene has a geometry named door_handle
HasHandle == \E g \in 1..Len(names) : names[g] = door_handle

StartsWithFinger(n) == Len(n) >= 6 /\ \A k \in 1..6 : n[k] = finger[k]

\* C8: no step or reset changes the excluded geometry set, and it is the id
\* of the geometry named door_handle with the ids of the geometries whose
\* name starts with finger
C8_ExcludedFixed ==
    /\ [][excluded_geom_ids' = excluded_geom_ids]_vars
    /\ [](HasHandle =>
            Range(excluded_geom_ids) =
                {g \in 0..(Len(names) - 1) :
                    names[g + 1] = door_handle \/ StartsWithFinger(names[g + 1])})
C8_Witness ==
    /\ lastop = "reset" /\ success_duration > 0 /\ HasHandle
    /\ Cardinality(Range(excluded_geom_ids)) = 3

\* C9: no environment holds an excluded set with the not-found id -1, and
\* no step runs with one
C9_NoInvalidId == lastop = "step" => NotFound \notin Range(excluded_geom_ids)

\* C10: terminated is computed from the counter on entry: without collision
\* a success step entered with a counter of at most 20 (steps 1..21 of a run
\* from 0) reports false, one entered with 21 (step 22) reports true, and a
\* non-success step entered with a counter above 20 reports true
C10_CounterBeforeUpdate ==
    [][IsStep =>
        /\ (Below01(dist') /\ ~_process_collision(contact', excluded_geom_ids) =>
              /\ success_duration' = success_duration + 1
              /\ (term' <=> success_duration' >= 22))
        /\ (~Below01(dist') /\ success_duration > 20 => term')]_vars
C10_Witness ==
    /\ lastop = "step" /\ term /\ success_duration = 22 /\ step_number = 22
    /\ ~_process_collision(contact, excluded_geom_ids)

====
